---- MODULE Spec2Model ----
(***************************************************************************)
(* Model of src/src/compute_mAP.py: box_iou, match_gt_box, get_rec_prec,   *)
(* voc_ap, calc_AP and compute_mAP.                                         *)
(*                                                                         *)
(* Numbers.  Coordinates are integers.  Every float the program computes   *)
(* is a quotient of small integers (an IoU, a recall, a precision) or a    *)
(* sum of products of such; the model keeps them as exact fractions        *)
(* <<numerator, denominator>> with a positive denominator.  Comparisons of *)
(* two such quotients agree with the comparisons of their floats.          *)
(*                                                                         *)
(* Records.  A Python list ['img', 'xmin,ymin,xmax,ymax', ...] is the      *)
(* sequence <<img, <<xmin, ymin, xmax, ymax>>, ...>>: the coordinate field *)
(* holds the four numbers that float(x) for x in split(',') yields.        *)
(* Ground-truth record lists are lists of references: `heap` maps object   *)
(* identities to list contents, so that aliasing (line 591, 601) and       *)
(* copying (line 581) are distinguished.                                   *)
(***************************************************************************)
EXTENDS Integers, Sequences, FiniteSets, TLC

(***************************************************************************)
(* Bounds of the model.                                                    *)
(***************************************************************************)
\* box_iou is explored on every pair of boxes of the grid 0..MaxCoord
MaxCoord == 3
\* longest ground-truth list of one calc_AP call
MaxGt == 2
\* longest prediction list of one calc_AP call
MaxPred == 3
\* most ground-truth records of the perfect detector
MaxPerfectGt == 3
\* longest lists of a call that is repeated, and how often the caller calls
MaxRerunGt == 1
MaxRerunPred == 2
MaxCalls == 2
\* most lines of the annotation file, boxes of a line, detections in an image
MaxLines == 2
MaxBoxes == 1
MaxDetections == 1

(***************************************************************************)
(* Exact fractions.                                                        *)
(***************************************************************************)
\* float(a) / float(b), b # 0
Frac(a, b) == IF b < 0 THEN <<-a, -b>> ELSE <<a, b>>

Zero == <<0, 1>>

One == <<1, 1>>

RLt(p, q) == p[1] * q[2] < q[1] * p[2]

RLe(p, q) == p[1] * q[2] <= q[1] * p[2]

REq(p, q) == p[1] * q[2] = q[1] * p[2]

RECURSIVE Gcd(_, _)
Gcd(a, b) == IF b = 0 THEN a ELSE Gcd(b, a % b)

Abs(a) == IF a < 0 THEN -a ELSE a

\* the same fraction in lowest terms
Reduce(p) ==
    LET g == Gcd(Abs(p[1]), p[2])
    IN  <<p[1] \div g, p[2] \div g>>

RSub(p, q) == Reduce(<<p[1] * q[2] - q[1] * p[2], p[2] * q[2]>>)

RAdd(p, q) == Reduce(<<p[1] * q[2] + q[1] * p[2], p[2] * q[2]>>)

RMul(p, q) == Reduce(<<p[1] * q[1], p[2] * q[2]>>)

RMax(p, q) == IF RLt(p, q) THEN q ELSE p

Max(a, b) == IF a >= b THEN a ELSE b

Min(a, b) == IF a <= b THEN a ELSE b

(***************************************************************************)
(* Box geometry (box_iou, lines 263-281).                                  *)
(***************************************************************************)
Area(box) == (box[3] - box[1]) * (box[4] - box[2])

inter_box(pred_box, gt_box) ==
    << Max(pred_box[1], gt_box[1]), Max(pred_box[2], gt_box[2]),
       Min(pred_box[3], gt_box[3]), Min(pred_box[4], gt_box[4]) >>

\* line 279: the width and the height of the intersection box are multiplied
\* as they are, negative or not
inter_area(pred_box, gt_box) == Area(inter_box(pred_box, gt_box))

union_area(pred_box, gt_box) ==
    Area(pred_box) + Area(gt_box) - inter_area(pred_box, gt_box)

\* box_iou with the intersection not subtracted from the union
box_iou_nosub(pred_box, gt_box) ==
    LET u == Area(pred_box) + Area(gt_box)
    IN  IF u = 0 THEN Zero ELSE Frac(inter_area(pred_box, gt_box), u)

box_iou(pred_box, gt_box) ==
    LET u == union_area(pred_box, gt_box)
    IN  IF u = 0 THEN Zero ELSE Frac(inter_area(pred_box, gt_box), u)

(***************************************************************************)
(* Boxes of the grid: ordered coordinates, zero width or height allowed.   *)
(***************************************************************************)
Coords == 0..MaxCoord

GridBoxes ==
    { b \in Coords \X Coords \X Coords \X Coords : b[1] <= b[3] /\ b[2] <= b[4] }

Ordered(box) == box[1] <= box[3] /\ box[2] <= box[4]

Degenerate(box) == box[1] = box[3] \/ box[2] = box[4]

\* the geometric intersection of two ordered boxes has zero area
ZeroIntersection(a, b) ==
    \/ Max(a[1], b[1]) >= Min(a[3], b[3])
    \/ Max(a[2], b[2]) >= Min(a[4], b[4])

\* outer contains inner
Contains(outer, inner) ==
    /\ outer[1] <= inner[1] /\ outer[2] <= inner[2]
    /\ inner[3] <= outer[3] /\ inner[4] <= outer[4]

(***************************************************************************)
(* Inputs of calc_AP: images, boxes, scores.  The boxes are chosen for the *)
(* IoU values they give one another under box_iou:                         *)
(*   (0,0,1,1)/(0,0,2,1) = 1/2     (0,0,2,1)/(0,0,3,1) = 2/3               *)
(*   (0,0,1,1)/(0,0,3,1) = 1/3     (2,2,3,3)/(2,3,4,4) = 0                 *)
(*   (0,0,3,1)/(2,2,3,3) = -1/5    (0,0,1,1)/(2,2,3,3) = 1                 *)
(*   (0,0,1,1)/(2,3,4,4) = 2                                               *)
(***************************************************************************)
Images == {"a.jpg", "b.jpg"}

PoolBoxes ==
    { <<0, 0, 1, 1>>, <<0, 0, 2, 1>>, <<0, 0, 3, 1>>, <<2, 2, 3, 3>>, <<2, 3, 4, 4>> }

\* confidence scores, in hundredths
Scores == {80, 90}

\* ['image_file', 'xmin,ymin,xmax,ymax']
GtRecords == { <<im, b>> : im \in Images, b \in PoolBoxes }

\* ['image_file', 'xmin,ymin,xmax,ymax', score]
PredRecords == { <<im, b, sc>> : im \in Images, b \in PoolBoxes, sc \in Scores }

\* the sequences over S of length lo..hi
SeqsOf(S, lo, hi) == UNION { [1..n -> S] : n \in lo..hi }

\* calc_AP line 593 (and the default of match_gt_box, line 284): 0.5
IouThreshold == <<1, 2>>

(***************************************************************************)
(* The heap of ground-truth record objects: identities 1..n, each holding  *)
(* the contents of one Python list.                                        *)
(***************************************************************************)
\* a heap holding one fresh object per record of recs, in order
HeapOf(recs) == [o \in 1..Len(recs) |-> recs[o]]

\* the list of references to them
RefsOf(recs) == [k \in 1..Len(recs) |-> k]

\* the contents of the objects a list refers to
Deref(h, ids) == [k \in 1..Len(ids) |-> h[ids[k]]]

\* line 581 as gt_record.append('unused'): the caller's objects are extended
\* in place and the working list refers to them
NewGtRecordsInPlace(h, ids) ==
    [ heap |-> [o \in DOMAIN h |->
                  IF \E k \in 1..Len(ids) : ids[k] = o
                  THEN h[o] \o <<"unused">> ELSE h[o]],
      list |-> ids ]

\* line 581: gt_records = [gt_record + ['unused'] for gt_record in gt_records]
\* builds one new list object per record; the caller's objects are not touched
NewGtRecords(h, ids) ==
    LET base == Cardinality(DOMAIN h)
    IN  [ heap |-> [o \in 1..(base + Len(ids)) |->
                      IF o <= base THEN h[o] ELSE h[ids[o - base]] \o <<"unused">>],
          list |-> [k \in 1..Len(ids) |-> base + k] ]

\* line 591: the references of gt_records whose record is of the image of
\* pred_record (the same objects, not copies)
image_gt_records(h, ids, pred_record) ==
    SelectSeq(ids, LAMBDA o : h[o][1] = pred_record[1])

(***************************************************************************)
(* match_gt_box (lines 284-323).  Indices are Python's: 0-based, -1 none.  *)
(***************************************************************************)
\* lines 308-317 without the test of the usage flag
RECURSIVE MatchScanAnyUsage(_, _, _, _, _)
MatchScanAnyUsage(pred_record, recs, i, max_iou, max_index) ==
    IF i >= Len(recs) THEN [max_iou |-> max_iou, max_index |-> max_index]
    ELSE LET v == box_iou(pred_record[2], recs[i + 1][2])
         IN  IF RLt(max_iou, v) /\ pred_record[1] = recs[i + 1][1]
             THEN MatchScanAnyUsage(pred_record, recs, i + 1, v, i)
             ELSE MatchScanAnyUsage(pred_record, recs, i + 1, max_iou, max_index)

\* line 315 with iou >= max_iou: a later candidate of equal IoU replaces the
\* earlier one
RECURSIVE MatchScanLatest(_, _, _, _, _)
MatchScanLatest(pred_record, recs, i, max_iou, max_index) ==
    IF i >= Len(recs) THEN [max_iou |-> max_iou, max_index |-> max_index]
    ELSE LET v == box_iou(pred_record[2], recs[i + 1][2])
         IN  IF /\ RLe(max_iou, v)
                /\ recs[i + 1][3] = "unused"
                /\ pred_record[1] = recs[i + 1][1]
             THEN MatchScanLatest(pred_record, recs, i + 1, v, i)
             ELSE MatchScanLatest(pred_record, recs, i + 1, max_iou, max_index)

\* lines 308-317: the scan over gt_records from index i on
RECURSIVE MatchScan(_, _, _, _, _)
MatchScan(pred_record, recs, i, max_iou, max_index) ==
    IF i >= Len(recs) THEN [max_iou |-> max_iou, max_index |-> max_index]
    ELSE LET v == box_iou(pred_record[2], recs[i + 1][2])
         IN  IF /\ RLt(max_iou, v)
                /\ recs[i + 1][3] = "unused"
                /\ pred_record[1] = recs[i + 1][1]
             THEN MatchScan(pred_record, recs, i + 1, v, i)
             ELSE MatchScan(pred_record, recs, i + 1, max_iou, max_index)

\* line 320 with the comparison turned round: a best IoU above the threshold
\* is rejected
match_gt_box_above(pred_record, recs, iou_threshold) ==
    LET r == MatchScan(pred_record, recs, 0, Zero, -1)
    IN  IF RLt(iou_threshold, r.max_iou) THEN -1 ELSE r.max_index

\* lines 305-323: the index of the best record, -1 when its IoU is below the
\* threshold
match_gt_box(pred_record, recs, iou_threshold) ==
    LET r == MatchScan(pred_record, recs, 0, Zero, -1)
    IN  IF RLt(r.max_iou, iou_threshold) THEN -1 ELSE r.max_index

(***************************************************************************)
(* One iteration of the prediction loop of calc_AP (lines 589-605).        *)
(***************************************************************************)
\* the position (1-based) in ids of the object o, 0 when it is not there
PositionOf(ids, o) ==
    IF \E k \in 1..Len(ids) : ids[k] = o
    THEN CHOOSE k \in 1..Len(ids) : ids[k] = o
    ELSE 0

\* line 601 left out: the record stays 'unused'
MarkUsedForgotten(h, o) == h

\* line 601: image_gt_records[i][2] = 'used' writes into the object itself
MarkUsed(h, o) == [h EXCEPT ![o] = [@ EXCEPT ![3] = "used"]]

\* i: the index match_gt_box returns; heap: the heap after line 601;
\* claimed: the position in gt_records of the record marked, 0 when none
LoopBody(h, ids, pred_record, iou_threshold) ==
    LET img == image_gt_records(h, ids, pred_record)
        i   == match_gt_box(pred_record, Deref(h, img), iou_threshold)
    IN  IF i # -1
        THEN [i |-> i, heap |-> MarkUsed(h, img[i + 1]),
              claimed |-> PositionOf(ids, img[i + 1])]
        ELSE [i |-> i, heap |-> h, claimed |-> 0]

(***************************************************************************)
(* get_rec_prec (lines 392-415).                                           *)
(***************************************************************************)
RECURSIVE SumTo(_, _)
SumTo(s, k) == IF k = 0 THEN 0 ELSE s[k] + SumTo(s, k - 1)

\* the loop of lines 397-400 with cumsum += the updated element
RECURSIVE CumSumUpdatedFrom(_, _, _)
CumSumUpdatedFrom(s, k, cumsum) ==
    IF k > Len(s) THEN s
    ELSE CumSumUpdatedFrom([s EXCEPT ![k] = s[k] + cumsum], k + 1,
                           cumsum + s[k] + cumsum)

CumSumUpdated(s) == CumSumUpdatedFrom(s, 1, 0)

\* lines 397-400 and 402-405: s[idx] += cumsum; cumsum += val, val being the
\* element as it was before the update
RECURSIVE CumSumFrom(_, _, _)
CumSumFrom(s, k, cumsum) ==
    IF k > Len(s) THEN s
    ELSE CumSumFrom([s EXCEPT ![k] = s[k] + cumsum], k + 1, cumsum + s[k])

CumSum(s) == CumSumFrom(s, 1, 0)

\* a divisor of lines 409 or 413 is zero
RecPrecDividesByZero(true_positive, false_positive, n_gt) ==
    LET ctp == CumSum(true_positive)
        cfp == CumSum(false_positive)
    IN  /\ Len(true_positive) > 0
        /\ \/ n_gt = 0
           \/ \E k \in 1..Len(ctp) : cfp[k] + ctp[k] = 0

\* get_rec_prec with the divisors of lines 409 and 413 exchanged
get_rec_prec_swapped(true_positive, false_positive, n_gt) ==
    LET ctp == CumSum(true_positive)
        cfp == CumSum(false_positive)
    IN  [ true_positive  |-> ctp,
          false_positive |-> cfp,
          rec  |-> [k \in 1..Len(ctp) |-> Frac(ctp[k], cfp[k] + ctp[k])],
          prec |-> [k \in 1..Len(ctp) |-> Frac(ctp[k], n_gt)] ]

\* the lists as get_rec_prec leaves and returns them; n_gt is len(gt_records)
get_rec_prec(true_positive, false_positive, n_gt) ==
    LET ctp == CumSum(true_positive)
        cfp == CumSum(false_positive)
    IN  [ true_positive  |-> ctp,
          false_positive |-> cfp,
          rec  |-> [k \in 1..Len(ctp) |-> Frac(ctp[k], n_gt)],
          prec |-> [k \in 1..Len(ctp) |-> Frac(ctp[k], cfp[k] + ctp[k])] ]

(***************************************************************************)
(* voc_ap (lines 325-368).                                                 *)
(***************************************************************************)
\* the sweep of lines 350-351 as range(len(mpre) - 2, 0, -1): index 0 is
\* left out
RECURSIVE EnvelopeSkipsFirst(_, _)
EnvelopeSkipsFirst(mpre, i) ==
    IF i < 2 THEN mpre
    ELSE EnvelopeSkipsFirst([mpre EXCEPT ![i] = RMax(mpre[i], mpre[i + 1])], i - 1)

\* lines 350-351: for i in range(len(mpre) - 2, -1, -1), 1-based here
RECURSIVE Envelope(_, _)
Envelope(mpre, i) ==
    IF i < 1 THEN mpre
    ELSE Envelope([mpre EXCEPT ![i] = RMax(mpre[i], mpre[i + 1])], i - 1)

\* lines 356-367: ap += (mrec[i] - mrec[i-1]) * mpre[i] at every index i from
\* the given one on where the recall changes
RECURSIVE AreaFrom(_, _, _, _)
AreaFrom(mrec, mpre, i, acc) ==
    IF i > Len(mrec) THEN acc
    ELSE IF ~REq(mrec[i], mrec[i - 1])
         THEN AreaFrom(mrec, mpre, i + 1,
                       RAdd(acc, RMul(RSub(mrec[i], mrec[i - 1]), mpre[i])))
         ELSE AreaFrom(mrec, mpre, i + 1, acc)

\* rec and prec are the argument lists as the call leaves them (lines 336-340
\* insert into and append to the lists passed in)
voc_ap(rec, prec) ==
    LET mrec == <<Zero>> \o rec \o <<One>>
        padded == <<Zero>> \o prec \o <<Zero>>
        mpre == Envelope(padded, Len(padded) - 1)
    IN  [ ap |-> AreaFrom(mrec, mpre, 2, Zero), mrec |-> mrec, mpre |-> mpre,
          rec |-> mrec, prec |-> padded ]

VARIABLES
    pc,          \* position of the operation in progress
    pred_box,    \* box_iou: first argument
    gt_box,      \* box_iou: second argument
    iou,         \* box_iou: value returned for (pred_box, gt_box)
    iou_rev,     \* box_iou: value returned for (gt_box, pred_box)
    heap,                  \* ground-truth record objects: identity -> contents
    caller_gt_records,     \* calc_AP: the gt_records argument (references)
    caller_pred_records,   \* calc_AP: the pred_records argument, when the caller keeps it
    gt_records,            \* calc_AP: gt_records after line 581 (references)
    nd,                    \* calc_AP: len(pred_records)
    idx,                   \* calc_AP: number of predictions processed
    true_positive,         \* calc_AP: list of line 585
    false_positive,        \* calc_AP: list of line 586
    true_positive_count,   \* calc_AP: counter of line 587
    assigned,              \* per prediction processed: position in gt_records of the record it marked, 0 for none
    rec,                   \* calc_AP: recall list (line 608)
    prec,                  \* calc_AP: precision list (line 608)
    mrec,                  \* calc_AP: line 609
    mpre,                  \* calc_AP: line 609
    ap,                    \* calc_AP: line 609
    results,               \* what the calls of calc_AP made so far returned, oldest first
    call_args,             \* arguments of a function called on its own
    call_result,           \* what that call returned
    thr_hi,                \* second matching pass: its iou_threshold
    thr_lo,                \* first matching pass: its iou_threshold
    heap_hi,               \* second matching pass: its record objects
    count_hi,              \* second matching pass: its true_positive_count
    class_names,           \* compute_mAP: the class vocabulary
    annotation_records,    \* compute_mAP: image names, in the order of first appearance
    gt_classes_records,    \* compute_mAP: class name -> ground-truth list (references)
    pred_classes_records,  \* compute_mAP: class name -> prediction list
    APs,                   \* compute_mAP: class name -> AP
    count_true_positives,  \* compute_mAP: class name -> true_positive_count
    class_i,               \* compute_mAP: number of classes processed
    mAP                    \* compute_mAP: line 637

iouVars == <<pred_box, gt_box, iou, iou_rev>>

apVars == <<heap, caller_gt_records, caller_pred_records, gt_records, nd, idx,
            true_positive, false_positive, true_positive_count, assigned,
            rec, prec, mrec, mpre, ap, results>>

fnVars == <<call_args, call_result>>

thrVars == <<thr_lo, thr_hi, heap_hi, count_hi>>

mapVars == <<class_names, annotation_records, gt_classes_records,
             pred_classes_records, APs, count_true_positives, class_i, mAP>>

vars == <<pc, iouVars, apVars, fnVars, thrVars, mapVars>>

\* what a call of calc_AP on its own leaves alone
notAP == <<iouVars, fnVars, thrVars, mapVars>>

IoUIdle ==
    /\ pred_box = <<>> /\ gt_box = <<>> /\ iou = Zero /\ iou_rev = Zero

\* the locals of calc_AP before the call
LocalsIdle ==
    /\ gt_records = <<>> /\ nd = 0 /\ idx = 0
    /\ true_positive = <<>> /\ false_positive = <<>> /\ true_positive_count = 0
    /\ assigned = <<>>
    /\ rec = <<>> /\ prec = <<>> /\ mrec = <<>> /\ mpre = <<>> /\ ap = Zero

APIdle ==
    /\ heap = <<>> /\ caller_gt_records = <<>> /\ caller_pred_records = <<>>
    /\ results = <<>>
    /\ LocalsIdle

FnIdle == call_args = <<>> /\ call_result = <<>>

ThrIdle == thr_lo = Zero /\ thr_hi = Zero /\ heap_hi = <<>> /\ count_hi = 0

MapIdle ==
    /\ class_names = <<>> /\ annotation_records = <<>>
    /\ gt_classes_records = <<>> /\ pred_classes_records = <<>>
    /\ APs = <<>> /\ count_true_positives = <<>> /\ class_i = 0 /\ mAP = Zero

(***************************************************************************)
(* SpecIoU: box_iou applied to every pair of grid boxes, in both orders.   *)
(***************************************************************************)
InitIoU ==
    /\ pc = "iou_call"
    /\ pred_box \in GridBoxes
    /\ gt_box \in GridBoxes
    /\ iou = Zero
    /\ iou_rev = Zero
    /\ APIdle /\ FnIdle /\ ThrIdle /\ MapIdle

CallBoxIou ==
    /\ pc = "iou_call"
    /\ iou' = box_iou(pred_box, gt_box)
    /\ iou_rev' = box_iou(gt_box, pred_box)
    /\ pc' = "iou_done"
    /\ UNCHANGED <<pred_box, gt_box, apVars, fnVars, thrVars, mapVars>>

NextIoU == CallBoxIou

SpecIoU == InitIoU /\ [][NextIoU]_vars

(***************************************************************************)
(* calc_AP (lines 560-612), one action per step.  The plot of line 610     *)
(* (draw_rec_prec) reads its arguments only and is left out.               *)
(***************************************************************************)
\* the objects the caller's list refers to; the others die with the call
CallerObjects(h, ids) == [o \in 1..Len(ids) |-> h[o]]

\* lines 581-587, n being len(pred_records)
Enter(n) ==
    /\ pc = "calc_AP"
    /\ LET r == NewGtRecords(heap, caller_gt_records)
       IN  /\ heap' = r.heap
           /\ gt_records' = r.list
    /\ nd' = n
    /\ true_positive' = [k \in 1..n |-> 0]
    /\ false_positive' = [k \in 1..n |-> 0]
    /\ true_positive_count' = 0
    /\ idx' = 0
    /\ assigned' = <<>>
    /\ pc' = "loop"
    /\ UNCHANGED <<caller_gt_records, caller_pred_records, rec, prec, mrec, mpre, ap,
                   results>>

\* lines 589-605 for the next prediction, pred_record
LoopStep(pred_record) ==
    /\ pc = "loop"
    /\ idx < nd
    /\ LET b == LoopBody(heap, gt_records, pred_record, IouThreshold)
       IN  /\ heap' = b.heap
           /\ assigned' = Append(assigned, b.claimed)
           /\ IF b.i # -1
              THEN /\ true_positive' = [true_positive EXCEPT ![idx + 1] = 1]
                   /\ true_positive_count' = true_positive_count + 1
                   /\ UNCHANGED false_positive
              ELSE /\ false_positive' = [false_positive EXCEPT ![idx + 1] = 1]
                   /\ UNCHANGED <<true_positive, true_positive_count>>
    /\ idx' = idx + 1
    /\ UNCHANGED <<pc, caller_gt_records, caller_pred_records, gt_records, nd,
                   rec, prec, mrec, mpre, ap, results>>

\* line 608
GetRecPrec ==
    /\ pc = "loop"
    /\ idx = nd
    /\ ~RecPrecDividesByZero(true_positive, false_positive, Len(gt_records))
    /\ LET r == get_rec_prec(true_positive, false_positive, Len(gt_records))
       IN  /\ true_positive' = r.true_positive
           /\ false_positive' = r.false_positive
           /\ rec' = r.rec
           /\ prec' = r.prec
    /\ pc' = "voc_ap"
    /\ UNCHANGED <<heap, caller_gt_records, caller_pred_records, gt_records, nd,
                   idx, true_positive_count, assigned, mrec, mpre, ap, results>>

\* line 608 when line 409 or 413 divides by zero: the exception leaves calc_AP
GetRecPrecRaises ==
    /\ pc = "loop"
    /\ idx = nd
    /\ RecPrecDividesByZero(true_positive, false_positive, Len(gt_records))
    /\ true_positive' = CumSum(true_positive)
    /\ false_positive' = CumSum(false_positive)
    /\ heap' = CallerObjects(heap, caller_gt_records)
    /\ gt_records' = <<>>
    /\ results' = Append(results, [raised |-> "ZeroDivisionError"])
    /\ pc' = "ZeroDivisionError"
    /\ UNCHANGED <<caller_gt_records, caller_pred_records, nd,
                   idx, true_positive_count, assigned, rec, prec, mrec, mpre, ap>>

\* line 609
VocAp ==
    /\ pc = "voc_ap"
    /\ LET r == voc_ap(rec, prec)
       IN  /\ ap' = r.ap
           /\ mrec' = r.mrec
           /\ mpre' = r.mpre
           /\ rec' = r.rec
           /\ prec' = r.prec
    /\ pc' = "return"
    /\ UNCHANGED <<heap, caller_gt_records, caller_pred_records, gt_records, nd,
                   idx, true_positive, false_positive, true_positive_count, assigned,
                   results>>

\* line 612: return ap, true_positive_count
Return ==
    /\ pc = "return"
    /\ heap' = CallerObjects(heap, caller_gt_records)
    /\ gt_records' = <<>>
    /\ results' = Append(results, [ap |-> ap,
                                   true_positive_count |-> true_positive_count,
                                   true_positive |-> true_positive,
                                   false_positive |-> false_positive,
                                   assigned |-> assigned])
    /\ pc' = "done"
    /\ UNCHANGED <<caller_gt_records, caller_pred_records, nd, idx, true_positive,
                   false_positive, true_positive_count, assigned,
                   rec, prec, mrec, mpre, ap>>

(***************************************************************************)
(* Spec: one call of calc_AP on any ground-truth list of at most MaxGt     *)
(* records and any prediction list of at most MaxPred records.  The        *)
(* prediction list is read once, front to back: its length is drawn at     *)
(* entry and its element idx when the loop reads it.                       *)
(***************************************************************************)
Init ==
    /\ pc = "calc_AP"
    /\ \E recs \in SeqsOf(GtRecords, 0, MaxGt) :
          /\ heap = HeapOf(recs)
          /\ caller_gt_records = RefsOf(recs)
    /\ caller_pred_records = <<>>
    /\ results = <<>>
    /\ LocalsIdle
    /\ IoUIdle /\ FnIdle /\ ThrIdle /\ MapIdle

EnterAny == \E n \in 0..MaxPred : /\ Enter(n)
                                  /\ UNCHANGED notAP

LoopStepAny == \E pred_record \in PredRecords : /\ LoopStep(pred_record)
                                                /\ UNCHANGED notAP

CurveStep == GetRecPrec /\ UNCHANGED notAP

CurveRaises == GetRecPrecRaises /\ UNCHANGED notAP

IntegrateStep == VocAp /\ UNCHANGED notAP

ReturnStep == Return /\ UNCHANGED notAP

Next ==
    \/ EnterAny
    \/ LoopStepAny
    \/ CurveStep
    \/ CurveRaises
    \/ IntegrateStep
    \/ ReturnStep

Spec == Init /\ [][Next]_vars

(***************************************************************************)
(* calc_AP called with a prediction list the caller keeps.                 *)
(***************************************************************************)
EnterStored == /\ Enter(Len(caller_pred_records))
               /\ UNCHANGED notAP

LoopStepStored == /\ pc = "loop"
                  /\ idx < nd
                  /\ LoopStep(caller_pred_records[idx + 1])
                  /\ UNCHANGED notAP

(***************************************************************************)
(* SpecPerfect: calc_AP on a detector that predicts exactly the ground     *)
(* truth: up to MaxPerfectGt records with pairwise distinct boxes, in any  *)
(* order, and one prediction per record, in any order.                     *)
(***************************************************************************)
OrdersOf(n) ==
    { p \in [1..n -> 1..n] : \A a, b \in 1..n : p[a] = p[b] => a = b }

DistinctBoxes(recs) ==
    \A a, b \in 1..Len(recs) : recs[a][2] = recs[b][2] => a = b

InitPerfect ==
    /\ pc = "calc_AP"
    /\ \E recs \in SeqsOf(GtRecords, 1, MaxPerfectGt) :
          /\ DistinctBoxes(recs)
          /\ heap = HeapOf(recs)
          /\ caller_gt_records = RefsOf(recs)
          /\ \E p \in OrdersOf(Len(recs)) : \E sc \in Scores :
                caller_pred_records =
                    [k \in 1..Len(recs) |-> <<recs[p[k]][1], recs[p[k]][2], sc>>]
    /\ results = <<>>
    /\ LocalsIdle
    /\ IoUIdle /\ FnIdle /\ ThrIdle /\ MapIdle

NextPerfect ==
    \/ EnterStored
    \/ LoopStepStored
    \/ CurveStep
    \/ IntegrateStep
    \/ ReturnStep

SpecPerfect == InitPerfect /\ [][NextPerfect]_vars

(***************************************************************************)
(* SpecRerun: the caller calls calc_AP up to MaxCalls times with the same  *)
(* two lists, of at most MaxRerunGt and MaxRerunPred records of one image. *)
(***************************************************************************)
RerunGtRecords == { r \in GtRecords : r[1] = "a.jpg" }

RerunPredRecords == { r \in PredRecords : r[1] = "a.jpg" /\ r[3] = 90 }

InitRerun ==
    /\ pc = "calc_AP"
    /\ \E recs \in SeqsOf(RerunGtRecords, 0, MaxRerunGt) :
          /\ heap = HeapOf(recs)
          /\ caller_gt_records = RefsOf(recs)
    /\ caller_pred_records \in SeqsOf(RerunPredRecords, 0, MaxRerunPred)
    /\ results = <<>>
    /\ LocalsIdle
    /\ IoUIdle /\ FnIdle /\ ThrIdle /\ MapIdle

\* the caller calls calc_AP once more with the lists it holds
CallAgain ==
    /\ pc \in {"done", "ZeroDivisionError"}
    /\ Len(results) < MaxCalls
    /\ pc' = "calc_AP"
    /\ UNCHANGED <<apVars, notAP>>

NextRerun ==
    \/ EnterStored
    \/ LoopStepStored
    \/ CurveStep
    \/ CurveRaises
    \/ IntegrateStep
    \/ ReturnStep
    \/ CallAgain

SpecRerun == InitRerun /\ [][NextRerun]_vars

(***************************************************************************)
(* SpecThreshold: the matching loop of calc_AP (lines 589-605) run twice   *)
(* over the same ground truth and the same predictions, once with          *)
(* iou_threshold thr_lo and once with thr_hi >= thr_lo.  Both passes start *)
(* from the records of line 581; the prediction list has MaxPred elements  *)
(* and every shorter list is a prefix of it.                               *)
(***************************************************************************)
Thresholds == { <<1, 2>>, <<2, 3>>, <<1, 1>> }

\* the loop of lines 589-605 reads the image and the box of a prediction and
\* never its score: predictions of one score
ThresholdPredRecords == { r \in PredRecords : r[3] = 90 }

InitThreshold ==
    /\ pc = "loop"
    /\ \E recs \in SeqsOf(GtRecords, 0, MaxGt) :
          LET r == NewGtRecords(HeapOf(recs), RefsOf(recs))
          IN  /\ caller_gt_records = RefsOf(recs)
              /\ heap = r.heap
              /\ heap_hi = r.heap
              /\ gt_records = r.list
    /\ thr_lo \in Thresholds
    /\ thr_hi \in Thresholds
    /\ RLe(thr_lo, thr_hi)
    /\ nd = MaxPred /\ idx = 0
    /\ true_positive_count = 0 /\ count_hi = 0
    /\ true_positive = <<>> /\ false_positive = <<>> /\ assigned = <<>>
    /\ rec = <<>> /\ prec = <<>> /\ mrec = <<>> /\ mpre = <<>> /\ ap = Zero
    /\ caller_pred_records = <<>> /\ results = <<>>
    /\ IoUIdle /\ FnIdle /\ MapIdle

\* lines 593-603 of both passes for the next prediction
ThresholdStep ==
    \E pred_record \in ThresholdPredRecords :
        /\ pc = "loop"
        /\ idx < nd
        /\ LET lo == LoopBody(heap, gt_records, pred_record, thr_lo)
               hi == LoopBody(heap_hi, gt_records, pred_record, thr_hi)
           IN  /\ heap' = lo.heap
               /\ heap_hi' = hi.heap
               /\ true_positive_count' =
                     IF lo.i # -1 THEN true_positive_count + 1 ELSE true_positive_count
               /\ count_hi' = IF hi.i # -1 THEN count_hi + 1 ELSE count_hi
        /\ idx' = idx + 1
        /\ UNCHANGED <<pc, caller_gt_records, caller_pred_records, gt_records, nd,
                       true_positive, false_positive, assigned,
                       rec, prec, mrec, mpre, ap, results,
                       thr_lo, thr_hi, iouVars, fnVars, mapVars>>

NextThreshold == ThresholdStep

SpecThreshold == InitThreshold /\ [][NextThreshold]_vars

(***************************************************************************)
(* SpecRecPrec: get_rec_prec on any list of per-prediction flags, exactly  *)
(* one of true_positive[i], false_positive[i] being 1, and any non-empty   *)
(* ground-truth list.                                                      *)
(***************************************************************************)
InitRecPrec ==
    /\ pc = "get_rec_prec"
    /\ \E flags \in SeqsOf({0, 1}, 0, MaxPred) :
       \E recs \in SeqsOf(GtRecords, 1, MaxGt) :
          call_args = [ true_positive  |-> flags,
                        false_positive |-> [k \in 1..Len(flags) |-> 1 - flags[k]],
                        gt_records     |-> recs ]
    /\ call_result = <<>>
    /\ APIdle /\ IoUIdle /\ ThrIdle /\ MapIdle

CallGetRecPrec ==
    /\ pc = "get_rec_prec"
    /\ call_result' = get_rec_prec(call_args.true_positive, call_args.false_positive,
                                   Len(call_args.gt_records))
    /\ pc' = "get_rec_prec_done"
    /\ UNCHANGED <<call_args, apVars, iouVars, thrVars, mapVars>>

NextRecPrec == CallGetRecPrec

SpecRecPrec == InitRecPrec /\ [][NextRecPrec]_vars

(***************************************************************************)
(* compute_mAP (lines 615-685) and what it calls.  A dict is a function on *)
(* its keys; an annotation line is <<image_name, boxes>>, a box of a line  *)
(* <<coordinate, class index>>, a detection <<box, class index, score>>.   *)
(***************************************************************************)
\* lines 170-173 and 250-253: append to the list of the key, or add the key
AppendOrAdd(d, key, record) ==
    IF key \in DOMAIN d
    THEN [d EXCEPT ![key] = Append(@, record)]
    ELSE d @@ (key :> <<record>>)

\* lines 164-173 for the boxes of one line, from box k on
RECURSIVE ParseBoxes(_, _, _, _, _)
ParseBoxes(classes_records, names, image_name, boxes, k) ==
    IF k > Len(boxes) THEN classes_records
    ELSE ParseBoxes(AppendOrAdd(classes_records, names[boxes[k][2] + 1],
                                <<image_name, boxes[k][1]>>),
                    names, image_name, boxes, k + 1)

\* line 169: box_records[coordinate] = class_name, the last box of a
\* coordinate winning
BoxRecords(names, boxes) ==
    [c \in { boxes[k][1] : k \in 1..Len(boxes) } |->
        LET last == CHOOSE k \in 1..Len(boxes) :
                        /\ boxes[k][1] = c
                        /\ \A m \in (k + 1)..Len(boxes) : boxes[m][1] # c
        IN  names[boxes[last][2] + 1]]

\* lines 160-174 from line k on
RECURSIVE ParseLines(_, _, _, _, _)
ParseLines(annotations, classes_records, names, lines, k) ==
    IF k > Len(lines)
    THEN [annotation_records |-> annotations, classes_records |-> classes_records]
    ELSE LET image_name == lines[k][1]
             boxes == lines[k][2]
             box_records == BoxRecords(names, boxes)
             known == \E m \in 1..Len(annotations) : annotations[m][1] = image_name
         IN  ParseLines(
                 IF known
                 THEN [m \in 1..Len(annotations) |->
                          IF annotations[m][1] = image_name
                          THEN <<image_name, box_records>> ELSE annotations[m]]
                 ELSE Append(annotations, <<image_name, box_records>>),
                 ParseBoxes(classes_records, names, image_name, boxes, 1),
                 names, lines, k + 1)

\* annotation_parse (lines 149-175); annotation_records keeps the order in
\* which its keys were first inserted
annotation_parse(lines, names) == ParseLines(<<>>, <<>>, names, lines, 1)

\* lines 245-253 for the detections of one image, from detection k on
RECURSIVE CollectDetections(_, _, _, _, _)
CollectDetections(pred_records, names, image_name, detections, k) ==
    IF k > Len(detections) THEN pred_records
    ELSE CollectDetections(
             AppendOrAdd(pred_records, names[detections[k][2] + 1],
                         <<image_name, detections[k][1], detections[k][3]>>),
             names, image_name, detections, k + 1)

\* lines 225-253: the images of annotation_records in order, from image m on
RECURSIVE CollectImages(_, _, _, _, _)
CollectImages(pred_records, names, annotations, predict, m) ==
    IF m > Len(annotations) THEN pred_records
    ELSE CollectImages(
             CollectDetections(pred_records, names, annotations[m][1],
                               predict[annotations[m][1]], 1),
             names, annotations, predict, m + 1)

\* the record put in front of the records of an equal score, as a sort that
\* is not stable may do
InsertBeforeEqualScore(sorted, record) ==
    LET before == Cardinality({ k \in 1..Len(sorted) : sorted[k][3] > record[3] })
    IN  SubSeq(sorted, 1, before) \o <<record>> \o SubSeq(sorted, before + 1, Len(sorted))

\* a record put into a list sorted by descending score, behind the records of
\* an equal score
InsertByScore(sorted, record) ==
    LET before == Cardinality({ k \in 1..Len(sorted) : sorted[k][3] >= record[3] })
    IN  SubSeq(sorted, 1, before) \o <<record>> \o SubSeq(sorted, before + 1, Len(sorted))

\* line 258: list.sort(key=score, reverse=True), which is stable
RECURSIVE SortByScore(_, _, _)
SortByScore(list, k, sorted) ==
    IF k > Len(list) THEN sorted
    ELSE SortByScore(list, k + 1, InsertByScore(sorted, list[k]))

\* get_prediction_class_records (lines 206-260); predict gives the detections
\* of the model for each image
get_prediction_class_records(annotations, names, predict) ==
    LET collected == CollectImages(<<>>, names, annotations, predict, 1)
    IN  [c \in DOMAIN collected |-> SortByScore(collected[c], 1, <<>>)]

\* lines 589-605 of calc_AP from prediction k on
RECURSIVE MatchAll(_, _, _, _, _)
MatchAll(h, ids, pred_records, k, flags) ==
    IF k > Len(pred_records) THEN flags
    ELSE LET b == LoopBody(h, ids, pred_records[k], IouThreshold)
         IN  MatchAll(b.heap, ids, pred_records, k + 1,
                 [ true_positive  |-> Append(flags.true_positive,
                                             IF b.i # -1 THEN 1 ELSE 0),
                   false_positive |-> Append(flags.false_positive,
                                             IF b.i # -1 THEN 0 ELSE 1),
                   true_positive_count |->
                       IF b.i # -1 THEN flags.true_positive_count + 1
                       ELSE flags.true_positive_count ])

\* calc_AP (lines 560-612) as one call on a non-empty gt_records
calc_AP(gt_recs, pred_records) ==
    LET new   == NewGtRecords(HeapOf(gt_recs), RefsOf(gt_recs))
        flags == MatchAll(new.heap, new.list, pred_records, 1,
                          [true_positive |-> <<>>, false_positive |-> <<>>,
                           true_positive_count |-> 0])
        curve == get_rec_prec(flags.true_positive, flags.false_positive, Len(gt_recs))
    IN  [ ap |-> voc_ap(curve.rec, curve.prec).ap,
          true_positive_count |-> flags.true_positive_count ]

\* the sum of the values of a dict of fractions
RECURSIVE SumValues(_, _)
SumValues(d, keys) ==
    IF keys = {} THEN Zero
    ELSE LET c == CHOOSE c \in keys : TRUE
         IN  RAdd(d[c], SumValues(d, keys \ {c}))

\* line 637: np.mean(list(APs.values())) * 100
MeanTimes100(d) ==
    RMul(RMul(SumValues(d, DOMAIN d), Frac(1, Cardinality(DOMAIN d))), Frac(100, 1))

(***************************************************************************)
(* SpecMAP: compute_mAP on a vocabulary of one or two classes, an          *)
(* annotation file of at most MaxLines lines of at most MaxBoxes boxes,    *)
(* and a model that detects at most MaxDetections boxes in an image.       *)
(***************************************************************************)
Vocabularies == { <<"car">>, <<"car", "dog">> }

MapBoxes == { <<0, 0, 1, 1>>, <<0, 0, 2, 1>> }

AnnotationLines(names) ==
    Images \X SeqsOf(MapBoxes \X (0..(Len(names) - 1)), 0, MaxBoxes)

Detections(names) == MapBoxes \X (0..(Len(names) - 1)) \X Scores

\* the state after lines 619-623
InitMAP ==
    /\ pc = "class_loop"
    /\ class_names \in Vocabularies
    /\ \E lines \in SeqsOf(AnnotationLines(class_names), 0, MaxLines) :
          LET parsed == annotation_parse(lines, class_names)
              keys   == { parsed.annotation_records[m][1] :
                            m \in 1..Len(parsed.annotation_records) }
          IN  /\ annotation_records = parsed.annotation_records
              /\ gt_classes_records = parsed.classes_records
              /\ \E predict \in [keys -> SeqsOf(Detections(class_names), 0, MaxDetections)] :
                    pred_classes_records =
                        get_prediction_class_records(parsed.annotation_records,
                                                     class_names, predict)
    /\ APs = <<>> /\ count_true_positives = <<>>
    /\ class_i = 0
    /\ mAP = Zero
    /\ APIdle /\ IoUIdle /\ FnIdle /\ ThrIdle

\* line 626 for a class without a ground-truth record: the lookup raises
ClassLookupRaises ==
    /\ pc = "class_loop"
    /\ class_i < Len(class_names)
    /\ class_names[class_i + 1] \notin DOMAIN gt_classes_records
    /\ pc' = "KeyError"
    /\ UNCHANGED <<mapVars, apVars, iouVars, fnVars, thrVars>>

\* lines 626-630: no prediction of the class
ClassNoPrediction ==
    /\ pc = "class_loop"
    /\ class_i < Len(class_names)
    /\ LET class_name == class_names[class_i + 1]
       IN  /\ class_name \in DOMAIN gt_classes_records
           /\ class_name \notin DOMAIN pred_classes_records
           /\ APs' = [c \in DOMAIN APs \cup {class_name} |->
                         IF c = class_name THEN Zero ELSE APs[c]]
    /\ class_i' = class_i + 1
    /\ UNCHANGED <<pc, class_names, annotation_records, gt_classes_records,
                   pred_classes_records, count_true_positives, mAP,
                   apVars, iouVars, fnVars, thrVars>>

\* lines 626-634: the class has predictions
ClassCalcAP ==
    /\ pc = "class_loop"
    /\ class_i < Len(class_names)
    /\ LET class_name == class_names[class_i + 1]
       IN  /\ class_name \in DOMAIN gt_classes_records
           /\ class_name \in DOMAIN pred_classes_records
           /\ LET r == calc_AP(gt_classes_records[class_name],
                               pred_classes_records[class_name])
              IN  /\ APs' = [c \in DOMAIN APs \cup {class_name} |->
                                IF c = class_name THEN r.ap ELSE APs[c]]
                  /\ count_true_positives' =
                        [c \in DOMAIN count_true_positives \cup {class_name} |->
                            IF c = class_name THEN r.true_positive_count
                            ELSE count_true_positives[c]]
    /\ class_i' = class_i + 1
    /\ UNCHANGED <<pc, class_names, annotation_records, gt_classes_records,
                   pred_classes_records, mAP, apVars, iouVars, fnVars, thrVars>>

\* lines 637 and 685, the loop being over
MeanAP ==
    /\ pc = "class_loop"
    /\ class_i = Len(class_names)
    /\ mAP' = MeanTimes100(APs)
    /\ pc' = "done"
    /\ UNCHANGED <<class_names, annotation_records, gt_classes_records,
                   pred_classes_records, APs, count_true_positives, class_i,
                   apVars, iouVars, fnVars, thrVars>>

NextMAP ==
    \/ ClassLookupRaises
    \/ ClassNoPrediction
    \/ ClassCalcAP
    \/ MeanAP

SpecMAP == InitMAP /\ [][NextMAP]_vars

(***************************************************************************)
(* SpecMatch: match_gt_box called on any prediction, any list of at most   *)
(* MaxGt candidates of either image and either usage flag, and any of the  *)
(* thresholds 0, 1/2, 2/3 and 1.                                           *)
(***************************************************************************)
MatchThresholds == { Zero, <<1, 2>>, <<2, 3>>, One }

\* records as line 581 and line 601 leave them
FlaggedRecords == { <<r[1], r[2], u>> : r \in GtRecords, u \in {"unused", "used"} }

InitMatch ==
    /\ pc = "match_gt_box"
    /\ \E pred_record \in ThresholdPredRecords :
       \E recs \in SeqsOf(FlaggedRecords, 0, MaxGt) :
       \E t \in MatchThresholds :
          call_args = [ pred_record   |-> pred_record,
                        gt_records    |-> recs,
                        iou_threshold |-> t ]
    /\ call_result = <<>>
    /\ APIdle /\ IoUIdle /\ ThrIdle /\ MapIdle

\* lines 302-323; the function writes none of its arguments
CallMatchGtBox ==
    /\ pc = "match_gt_box"
    /\ call_result' = [ max_index  |-> match_gt_box(call_args.pred_record,
                                                    call_args.gt_records,
                                                    call_args.iou_threshold),
                        gt_records |-> call_args.gt_records ]
    /\ pc' = "match_gt_box_done"
    /\ UNCHANGED <<call_args, apVars, iouVars, thrVars, mapVars>>

NextMatch == CallMatchGtBox

SpecMatch == InitMatch /\ [][NextMatch]_vars

(***************************************************************************)
(* SpecPipeline: compute_mAP step by step, calc_AP included.  The images   *)
(* are visited in any order; the annotation line of an image holds one box *)
(* of every class of the vocabulary, and the model detects at most         *)
(* MaxDetections boxes in an image.                                        *)
(***************************************************************************)
\* sequences of distinct images
ImageOrders ==
    { o \in SeqsOf(Images, 0, Cardinality(Images)) :
        \A a, b \in 1..Len(o) : o[a] = o[b] => a = b }

\* the annotation line of an image: the box 0,0,1,1 once for every class
LineOf(image_name, names) ==
    <<image_name, [k \in 1..Len(names) |-> <<<<0, 0, 1, 1>>, k - 1>>]>>

\* the state after line 619, predict being what the model will detect
InitPipeline ==
    /\ pc = "get_prediction_class_records"
    /\ class_names \in Vocabularies
    /\ \E o \in ImageOrders :
          LET lines  == [k \in 1..Len(o) |-> LineOf(o[k], class_names)]
              parsed == annotation_parse(lines, class_names)
          IN  /\ annotation_records = parsed.annotation_records
              /\ gt_classes_records = parsed.classes_records
              /\ \E predict \in [{ o[k] : k \in 1..Len(o) } ->
                                   SeqsOf(Detections(class_names), 0, MaxDetections)] :
                    call_args = [predict |-> predict]
    /\ call_result = <<>>
    /\ pred_classes_records = <<>>
    /\ APs = <<>> /\ count_true_positives = <<>>
    /\ class_i = 0
    /\ mAP = Zero
    /\ APIdle /\ IoUIdle /\ ThrIdle

\* line 620
CallGetPredictions ==
    /\ pc = "get_prediction_class_records"
    /\ pred_classes_records' =
          get_prediction_class_records(annotation_records, class_names,
                                       call_args.predict)
    /\ pc' = "class_loop"
    /\ UNCHANGED <<class_names, annotation_records, gt_classes_records, APs,
                   count_true_positives, class_i, mAP,
                   apVars, iouVars, fnVars, thrVars>>

\* lines 626-632: the class has predictions, calc_AP is called
ClassEnter ==
    /\ pc = "class_loop"
    /\ class_i < Len(class_names)
    /\ LET class_name == class_names[class_i + 1]
       IN  /\ class_name \in DOMAIN gt_classes_records
           /\ class_name \in DOMAIN pred_classes_records
           /\ heap' = HeapOf(gt_classes_records[class_name])
           /\ caller_gt_records' = RefsOf(gt_classes_records[class_name])
           /\ caller_pred_records' = pred_classes_records[class_name]
    /\ pc' = "calc_AP"
    /\ UNCHANGED <<gt_records, nd, idx, true_positive, false_positive,
                   true_positive_count, assigned, rec, prec, mrec, mpre, ap,
                   results, mapVars, iouVars, fnVars, thrVars>>

\* lines 632-634: calc_AP has returned
ClassStore ==
    /\ pc = "done"
    /\ class_i < Len(class_names)
    /\ LET class_name == class_names[class_i + 1]
           r == results[Len(results)]
       IN  /\ APs' = [c \in DOMAIN APs \cup {class_name} |->
                         IF c = class_name THEN r.ap ELSE APs[c]]
           /\ count_true_positives' =
                 [c \in DOMAIN count_true_positives \cup {class_name} |->
                     IF c = class_name THEN r.true_positive_count
                     ELSE count_true_positives[c]]
    /\ class_i' = class_i + 1
    /\ pc' = "class_loop"
    /\ UNCHANGED <<class_names, annotation_records, gt_classes_records,
                   pred_classes_records, mAP, apVars, iouVars, fnVars, thrVars>>

NextPipeline ==
    \/ CallGetPredictions
    \/ ClassLookupRaises
    \/ ClassNoPrediction
    \/ ClassEnter
    \/ EnterStored
    \/ LoopStepStored
    \/ CurveStep
    \/ IntegrateStep
    \/ ReturnStep
    \/ ClassStore
    \/ MeanAP

SpecPipeline == InitPipeline /\ [][NextPipeline]_vars

(***************************************************************************)
(* SpecVocAp: voc_ap called on any recall and precision lists of one       *)
(* length, at most MaxPred, the recall non-decreasing.                     *)
(***************************************************************************)
CurveValues == { Zero, <<1, 3>>, <<1, 2>>, One }

InitVocAp ==
    /\ pc = "voc_ap"
    /\ \E n \in 0..MaxPred :
       \E r \in [1..n -> CurveValues] :
       \E p \in [1..n -> CurveValues] :
          /\ \A k \in 1..(n - 1) : RLe(r[k], r[k + 1])
          /\ call_args = [rec |-> r, prec |-> p]
    /\ call_result = <<>>
    /\ APIdle /\ IoUIdle /\ ThrIdle /\ MapIdle

CallVocAp ==
    /\ pc = "voc_ap"
    /\ call_result' = voc_ap(call_args.rec, call_args.prec)
    /\ pc' = "voc_ap_done"
    /\ UNCHANGED <<call_args, apVars, iouVars, thrVars, mapVars>>

NextVocAp == CallVocAp

SpecVocAp == InitVocAp /\ [][NextVocAp]_vars

(***************************************************************************)
(* Claims about box_iou (SpecIoU).                                         *)
(***************************************************************************)
\* C2: box_iou returns 0 for every pair of ordered boxes whose geometric
\* intersection has zero area (disjoint boxes, or a degenerate box).
C2_ZeroIntersectionGivesZero ==
    (pc = "iou_done" /\ ZeroIntersection(pred_box, gt_box))
        => (REq(iou, Zero) /\ REq(iou_rev, Zero))

\* C8: when gt_box has non-zero area and contains pred_box, box_iou returns
\* area(pred_box) / area(gt_box) in both argument orders; in particular
\* box_iou(A, A) = 1 for a box A of non-zero area.
C8_ContainedBoxRatio ==
    (pc = "iou_done" /\ Contains(gt_box, pred_box) /\ Area(gt_box) # 0)
        => /\ REq(iou, Frac(Area(pred_box), Area(gt_box)))
           /\ REq(iou_rev, Frac(Area(pred_box), Area(gt_box)))
           /\ (pred_box = gt_box => REq(iou, One))

C8_Witness ==
    /\ pc = "iou_done"
    /\ Contains(gt_box, pred_box)
    /\ pred_box # gt_box
    /\ Area(pred_box) > 0
    /\ REq(iou, <<1, 2>>)

(***************************************************************************)
(* Claims about one call of calc_AP (Spec).                                *)
(***************************************************************************)
\* positions of gt_records whose record is flagged 'used'
UsedPositions ==
    { k \in 1..Len(gt_records) : heap[gt_records[k]][3] = "used" }

\* positions of gt_records that some prediction processed so far marked
ClaimedPositions == { assigned[j] : j \in 1..Len(assigned) } \ {0}

\* in the prediction loop: the predictions flagged true positive are exactly
\* those that marked a record, no two of them marked the same record, the
\* records marked are exactly the records flagged 'used', and
\* true_positive_count counts them
C1_Matching ==
    pc = "loop" =>
        /\ Len(assigned) = idx
        /\ \A j \in 1..idx :
              /\ (true_positive[j] = 1) <=> (assigned[j] # 0)
              /\ (false_positive[j] = 1) <=> (assigned[j] = 0)
        /\ \A j1, j2 \in 1..idx :
              (assigned[j1] # 0 /\ assigned[j1] = assigned[j2]) => j1 = j2
        /\ ClaimedPositions = UsedPositions
        /\ true_positive_count = Cardinality(UsedPositions)
        /\ true_positive_count <= Len(gt_records)

\* a step of the loop leaves every record flagged 'used' flagged 'used'
C1_UsedStaysUsed ==
    (pc = "loop" /\ pc' = "loop") =>
        \A k \in 1..Len(gt_records) :
            heap[gt_records[k]][3] = "used" => heap'[gt_records'[k]][3] = "used"

\* C1: during one calc_AP pass no ground-truth record is matched twice: each
\* record is claimed by at most one prediction, a usage flag never goes back
\* from 'used' to 'unused', and the true positives correspond one-to-one to
\* the records flagged 'used'.
C1_NoDoubleMatch == [](C1_Matching) /\ [][C1_UsedStaysUsed]_vars

\* every record is claimed, by the first and the third prediction, and the
\* second and the fourth found nothing left to claim or nothing close enough
C1_Witness ==
    /\ pc = "loop"
    /\ idx = 3
    /\ Len(gt_records) = 2
    /\ assigned = <<2, 0, 1>>
    /\ UsedPositions = {1, 2}

InUnit(q) == RLe(Zero, q) /\ RLe(q, One)

\* C6: for a class with at least one ground-truth record and at least one
\* prediction (every box of PoolBoxes has ordered coordinates and a non-zero
\* area), every recall and precision value lies in [0, 1] and so does ap.
C6_APBounds ==
    (pc \in {"voc_ap", "return", "done"} /\ nd >= 1 /\ Len(caller_gt_records) >= 1)
        => /\ \A k \in 1..Len(rec) : InUnit(rec[k])
           /\ \A k \in 1..Len(prec) : InUnit(prec[k])
           /\ (pc # "voc_ap" => InUnit(ap))

\* a call returned an ap strictly between 0 and 1
C6_Witness ==
    /\ pc = "done"
    /\ nd >= 2
    /\ Len(caller_gt_records) >= 1
    /\ \A k \in 1..Len(caller_gt_records) : ~Degenerate(heap[caller_gt_records[k]][2])
    /\ RLt(Zero, ap)
    /\ RLt(ap, One)

\* C7: a class with at least one prediction and no ground-truth record is
\* evaluated without a fault: calc_AP does not end in a division by zero.
C7_EmptyGroundTruthHandled ==
    (Len(caller_gt_records) = 0 /\ nd >= 1) => pc # "ZeroDivisionError"

(***************************************************************************)
(* Claims about calc_AP on a perfect detector (SpecPerfect).               *)
(***************************************************************************)
\* C3: when the predictions are exactly the ground-truth boxes (one per
\* record, same image, same coordinates, boxes pairwise distinct and of
\* non-zero area), in any order of either list, calc_AP flags every prediction
\* as a true positive, true_positive_count is the number of ground-truth
\* records, and AP = 1.0.
C3_PerfectDetector ==
    pc = "done" =>
        /\ \A j \in 1..Len(assigned) : assigned[j] # 0
        /\ true_positive_count = Len(caller_gt_records)
        /\ REq(ap, One)

(***************************************************************************)
(* Claims about the matching loop under two thresholds (SpecThreshold).    *)
(***************************************************************************)
\* C4: for the same ground truth and the same ordered predictions, the
\* matching loop with iou_threshold thr_hi >= thr_lo yields at most as many
\* true positives as with thr_lo, after every prefix of the predictions.
C4_ThresholdMonotone == count_hi <= true_positive_count

\* all predictions processed, the higher threshold accepted one match and the
\* lower threshold more
C4_Witness ==
    /\ pc = "loop"
    /\ idx = nd /\ idx >= 2
    /\ RLt(thr_lo, thr_hi)
    /\ count_hi >= 1
    /\ count_hi < true_positive_count

(***************************************************************************)
(* Claims about get_rec_prec (SpecRecPrec).                                *)
(***************************************************************************)
\* number of true positives among the first k flags
TruePositivesUpTo(flags, k) == Cardinality({ j \in 1..k : flags[j] = 1 })

\* C9: for flags with exactly one of true/false positive set per prediction
\* and a non-empty ground-truth list, the recall returned by get_rec_prec has
\* the length of the prediction list, recall[i] is the number of true
\* positives among predictions 0..i over the number of ground-truth records,
\* and recall is non-decreasing in the index.
C9_RecallCurve ==
    pc = "get_rec_prec_done" =>
        LET flags == call_args.true_positive
            n_gt  == Len(call_args.gt_records)
            r     == call_result.rec
        IN  /\ Len(r) = Len(flags)
            /\ \A k \in 1..Len(r) :
                  REq(r[k], <<TruePositivesUpTo(flags, k), n_gt>>)
            /\ \A k \in 1..(Len(r) - 1) : RLe(r[k], r[k + 1])

\* a true positive, a false positive and a second true positive against two
\* ground-truth records: recall 1/2, 1/2, 1
C9_Witness ==
    /\ pc = "get_rec_prec_done"
    /\ call_args.true_positive = <<1, 0, 1>>
    /\ Len(call_args.gt_records) = 2
    /\ REq(call_result.rec[1], Frac(1, 2))
    /\ REq(call_result.rec[2], Frac(1, 2))
    /\ REq(call_result.rec[3], One)

(***************************************************************************)
(* Claims about repeated calls of calc_AP (SpecRerun).                     *)
(***************************************************************************)
\* when the prediction loop of a call starts, the call's records are one per
\* caller's record and all 'unused'
C10_StartsUnused ==
    (pc = "loop" /\ idx = 0) =>
        /\ Len(gt_records) = Len(caller_gt_records)
        /\ \A k \in 1..Len(gt_records) :
              /\ Len(heap[gt_records[k]]) = 3
              /\ heap[gt_records[k]][3] = "unused"

\* the caller's records are image and coordinates, with no usage flag
C10_CallerRecordsPlain ==
    \A k \in 1..Len(caller_gt_records) :
        /\ Len(heap[caller_gt_records[k]]) = 2
        /\ heap[caller_gt_records[k]] \in RerunGtRecords

\* no step changes the caller's lists or the records they refer to
C10_CallerUnchanged ==
    /\ caller_gt_records' = caller_gt_records
    /\ Deref(heap', caller_gt_records') = Deref(heap, caller_gt_records)
    /\ caller_pred_records' = caller_pred_records

\* all calls made so far had the same outcome
C10_SameResults ==
    \A a, b \in 1..Len(results) : results[a] = results[b]

\* C10: usage state is scoped to one calc_AP call: every call starts with all
\* records 'unused', no call changes the caller's ground-truth records (image,
\* coordinates, length, no flag added) or prediction records, and calling
\* again with the same lists yields the same flags, true_positive_count and AP.
C10_UsageScopedToCall ==
    /\ [](C10_StartsUnused /\ C10_CallerRecordsPlain /\ C10_SameResults)
    /\ [][C10_CallerUnchanged]_vars

\* the second call has returned and the first matched a prediction
C10_Witness ==
    /\ pc = "done"
    /\ Len(results) = 2
    /\ results[1].true_positive_count >= 1
    /\ results[2].true_positive_count >= 1

(***************************************************************************)
(* Claims about compute_mAP (SpecMAP).                                     *)
(***************************************************************************)
\* the per-class AP values summed in the order of the vocabulary
RECURSIVE SumOverVocabulary(_)
SumOverVocabulary(k) ==
    IF k = 0 THEN Zero ELSE RAdd(APs[class_names[k]], SumOverVocabulary(k - 1))

\* C5: for every vocabulary, ground truth and predictions compute_mAP
\* completes and returns 100 * (sum of per-class AP) / (number of classes in
\* class_names): every vocabulary class gets an AP entry, a class with no
\* prediction gets AP = 0 and no true-positive count, with or without a
\* ground-truth record, and it counts in the denominator.
C5_MeanOverVocabulary ==
    /\ pc # "KeyError"
    /\ pc = "done" =>
          /\ DOMAIN APs = { class_names[k] : k \in 1..Len(class_names) }
          /\ \A c \in DOMAIN APs :
                c \notin DOMAIN pred_classes_records =>
                    /\ REq(APs[c], Zero)
                    /\ c \notin DOMAIN count_true_positives
          /\ REq(mAP, RMul(SumOverVocabulary(Len(class_names)),
                           Frac(100, Len(class_names))))

(***************************************************************************)
(* Claims about match_gt_box (SpecMatch).                                  *)
(***************************************************************************)
\* positions (1-based) of the candidates of the prediction's image that are
\* 'unused'
Eligible ==
    { k \in 1..Len(call_args.gt_records) :
        /\ call_args.gt_records[k][1] = call_args.pred_record[1]
        /\ call_args.gt_records[k][3] = "unused" }

\* the IoU of candidate k with the prediction
CandidateIoU(k) == box_iou(call_args.pred_record[2], call_args.gt_records[k][2])

\* the earliest eligible candidate that attains the greatest IoU among the
\* eligible ones (Eligible being non-empty)
EarliestBest ==
    CHOOSE k \in Eligible :
        /\ \A j \in Eligible : RLe(CandidateIoU(j), CandidateIoU(k))
        /\ \A j \in Eligible : j < k => RLt(CandidateIoU(j), CandidateIoU(k))

\* the index returned is -1 or that of an eligible candidate, and the
\* candidates are as they were
C11_OnlyEligibleNoWrite ==
    /\ call_result.gt_records = call_args.gt_records
    /\ \/ call_result.max_index = -1
       \/ (call_result.max_index + 1) \in Eligible

\* C11 as stated: match_gt_box returns the index of the earliest eligible
\* candidate (same image, 'unused') of greatest IoU whenever that IoU is >= t,
\* and -1 otherwise; it never returns a 'used' or other-image candidate and
\* writes no flag.
C11_BestEligibleAtLeastThreshold ==
    pc = "match_gt_box_done" =>
        /\ C11_OnlyEligibleNoWrite
        /\ IF /\ Eligible # {}
              /\ RLe(call_args.iou_threshold, CandidateIoU(EarliestBest))
           THEN call_result.max_index = EarliestBest - 1
           ELSE call_result.max_index = -1

\* C11 amended: as stated, provided the greatest IoU is >= t and greater
\* than 0; a candidate whose IoU is 0 or less is never returned.
C11_BestEligiblePositive ==
    pc = "match_gt_box_done" =>
        /\ C11_OnlyEligibleNoWrite
        /\ IF /\ Eligible # {}
              /\ RLe(call_args.iou_threshold, CandidateIoU(EarliestBest))
              /\ RLt(Zero, CandidateIoU(EarliestBest))
           THEN call_result.max_index = EarliestBest - 1
           ELSE call_result.max_index = -1

\* two eligible candidates tie at IoU 1/2 = t: the first of the two is
\* returned
C11_Witness ==
    /\ pc = "match_gt_box_done"
    /\ Eligible = {1, 2}
    /\ REq(CandidateIoU(1), <<1, 2>>)
    /\ REq(CandidateIoU(2), <<1, 2>>)
    /\ REq(call_args.iou_threshold, <<1, 2>>)
    /\ call_result.max_index = 0

(***************************************************************************)
(* Claims about the order of the predictions (SpecPipeline).               *)
(***************************************************************************)
\* the predictions of every class in the order lines 225-253 accumulate them,
\* before the sort of line 258
Accumulated ==
    CollectImages(<<>>, class_names, annotation_records, call_args.predict, 1)

\* the records of a list that have the score s, in the order of the list
WithScore(list, s) ==
    LET Has(r) == r[3] = s IN SelectSeq(list, Has)

\* C12: in the matching loop of calc_AP, a prediction processed before
\* another of the same class has a score at least as high, for every set of
\* per-image detections and every order of the images; and the predictions of
\* one score are processed in the order in which they were accumulated.
C12_DescendingScoreOrder ==
    pc = "loop" =>
        LET class_name == class_names[class_i + 1]
        IN  /\ nd = Len(caller_pred_records)
            /\ \A j \in 1..idx : \A k \in (j + 1)..nd :
                  caller_pred_records[j][3] >= caller_pred_records[k][3]
            /\ Len(caller_pred_records) = Len(Accumulated[class_name])
            /\ \A s \in Scores :
                  WithScore(caller_pred_records, s) =
                      WithScore(Accumulated[class_name], s)

\* both predictions of a class are processed, the one accumulated second,
\* of the higher score, first
C12_Witness ==
    /\ pc = "loop"
    /\ idx = 2 /\ nd = 2
    /\ Accumulated[class_names[class_i + 1]][1][3] = 80
    /\ Accumulated[class_names[class_i + 1]][2][3] = 90
    /\ caller_pred_records[1][3] = 90
    /\ caller_pred_records[2][3] = 80

(***************************************************************************)
(* Claims about the greedy order of calc_AP (SpecRerun).                   *)
(***************************************************************************)
\* the flags calc_AP's loop gives the predictions 1..k when the list ends
\* after prediction k
FlagsOfPrefix(k) ==
    LET recs == Deref(heap, caller_gt_records)
        new  == NewGtRecords(HeapOf(recs), RefsOf(recs))
    IN  MatchAll(new.heap, new.list, SubSeq(caller_pred_records, 1, k), 1,
                 [true_positive |-> <<>>, false_positive |-> <<>>,
                  true_positive_count |-> 0])

\* the flags of every prediction processed so far are those it gets when the
\* predictions behind it are removed
C13_PrefixDetermines ==
    pc = "loop" =>
        \A k \in 1..idx :
            /\ true_positive[k] = FlagsOfPrefix(k).true_positive[k]
            /\ false_positive[k] = FlagsOfPrefix(k).false_positive[k]

\* processing one more prediction changes neither the flags nor the claimed
\* record of an earlier prediction, and gives it no record an earlier
\* prediction claimed
C13_OutcomeKept ==
    (pc = "loop" /\ pc' = "loop") =>
        /\ \A j \in 1..idx :
              /\ assigned'[j] = assigned[j]
              /\ true_positive'[j] = true_positive[j]
              /\ false_positive'[j] = false_positive[j]
        /\ \A j \in 1..idx :
              assigned[j] # 0 => assigned'[idx'] # assigned[j]

\* C13: greedy first-claim: the flag of the prediction at position k and the
\* record it claims depend only on the ground-truth list and predictions
\* 0..k; later predictions never change them, and a record claimed by an
\* earlier prediction is never given to a later one, even one of higher IoU.
C13_GreedyFirstClaim ==
    /\ [](C13_PrefixDetermines)
    /\ [][C13_OutcomeKept]_vars

\* the first prediction claimed the record at IoU 1/2; the second, of IoU 1
\* with the same record, is a false positive
C13_Witness ==
    /\ pc = "loop"
    /\ idx = 2
    /\ Len(gt_records) = 1
    /\ assigned = <<1, 0>>
    /\ true_positive = <<1, 0>>
    /\ false_positive = <<0, 1>>
    /\ REq(box_iou(caller_pred_records[1][2], heap[gt_records[1]][2]), <<1, 2>>)
    /\ REq(box_iou(caller_pred_records[2][2], heap[gt_records[1]][2]), One)

(***************************************************************************)
(* Claims about voc_ap (SpecVocAp).                                        *)
(***************************************************************************)
\* the greatest of the fractions s[j], j in the non-empty set J
GreatestOf(s, J) ==
    LET top == CHOOSE j \in J : \A m \in J : RLe(s[m], s[j])
    IN  s[top]

\* the sum of (mrec[i] - mrec[i-1]) * mpre[i] over the indices of the set I
RECURSIVE SumOfSteps(_, _, _)
SumOfSteps(recall, envelope, I) ==
    IF I = {} THEN Zero
    ELSE LET i == CHOOSE i \in I : TRUE
         IN  RAdd(RMul(RSub(recall[i], recall[i - 1]), envelope[i]),
                  SumOfSteps(recall, envelope, I \ {i}))

\* C14: for recall and precision lists of one length with non-decreasing
\* recall, voc_ap returns mrec = [0] + rec + [1], an mpre of the same length
\* that is non-increasing with mpre[i] the maximum of ([0] + prec + [0])[j]
\* over j >= i, and ap the sum of (mrec[i] - mrec[i-1]) * mpre[i] over exactly
\* the indices i >= 1 where mrec[i] # mrec[i-1]; ap = 0 when every precision
\* is 0 and for empty input.
C14_EnvelopeAndArea ==
    pc = "voc_ap_done" =>
        LET padded == <<Zero>> \o call_args.prec \o <<Zero>>
            n      == Len(call_args.rec) + 2
            r      == call_result
            breaks == { i \in 2..n : ~REq(r.mrec[i], r.mrec[i - 1]) }
        IN  /\ r.mrec = <<Zero>> \o call_args.rec \o <<One>>
            /\ Len(r.mpre) = n
            /\ \A i \in 1..(n - 1) : RLe(r.mpre[i + 1], r.mpre[i])
            /\ \A i \in 1..n : REq(r.mpre[i], GreatestOf(padded, i..n))
            /\ REq(r.ap, SumOfSteps(r.mrec, r.mpre, breaks))
            /\ (\A k \in 1..Len(call_args.prec) : REq(call_args.prec[k], Zero))
                  => REq(r.ap, Zero)

\* the precision 0 of the first point is raised to 1/2 by the envelope, and
\* the repeated recalls 0 and 1 add no step: ap = 1/2 * 1/2 + 1/2 * 1/2
C14_Witness ==
    /\ pc = "voc_ap_done"
    /\ call_args.rec = << Zero, <<1, 2>>, One >>
    /\ call_args.prec = << Zero, <<1, 2>>, <<1, 2>> >>
    /\ REq(call_result.mpre[1], <<1, 2>>)
    /\ REq(call_result.mpre[2], <<1, 2>>)
    /\ REq(call_result.ap, <<1, 2>>)

====
